---- MODULE Spec2Model ----
(***************************************************************************)
(* Model of src/error.rs: the GraphQLError value, its constructors, its    *)
(* accessors and predicates, the shared Display/Debug formatting routine   *)
(* and the untagged decoding of GraphQLErrorPathParam.                     *)
(***************************************************************************)
EXTENDS Integers, Sequences, FiniteSets, TLC

VARIABLES pc, ctor, self, op, ret, first, repeat, wire, decoded

vars == <<pc, ctor, self, op, ret, first, repeat, wire, decoded>>

----------------------------------------------------------------------------
(* Bounds of the model. *)

\* longest entry list handed to with_json / with_message_and_json
MaxEntries == 2

\* longest path decoded from the wire
MaxPath == 3

----------------------------------------------------------------------------
(* Option<T>: None is the empty sequence, Some(v) the one-element one. *)

None == <<>>

Some(v) == <<v>>

is_none(o) == o = None

\* Option::is_some_and(f) is is_some(o) /\ f(payload(o)); the closure is
\* written out where it is used
is_some(o) == o # None

payload(o) == o[1]

\* Option::unwrap: the payload of Some; on None the call panics
unwrap_panics(o) == o = None

unwrap(o) == o[1]

\* Option<&str>::unwrap_or_default: the default of &str is ""
unwrap_or_default(o) == IF o = None THEN "" ELSE o[1]

----------------------------------------------------------------------------
(* serde_json::Value and Map<String, Value>, as far as error.rs reads them *)

JNull == [t |-> "Null"]

JBool(b) == [t |-> "Bool", b |-> b]

\* serde_json::Number holding an unsigned integer hi * 2^16 + lo
PosInt(hi, lo) == [t |-> "Number", n |-> "PosInt", hi |-> hi, lo |-> lo]

NegInt(k) == [t |-> "Number", n |-> "NegInt", k |-> k]

Float(s) == [t |-> "Number", n |-> "Float", f |-> s]

JString(s) == [t |-> "String", s |-> s]

\* Value::as_str: Some(s) for Value::String(s), None for every other variant
as_str(val) == IF val.t = "String" THEN Some(val.s) ELSE None

\* a Map is a sequence of <<key, value>> pairs with distinct keys
Map1(k, v) == << <<k, v>> >>

Map2(k1, v1, k2, v2) == << <<k1, v1>>, <<k2, v2>> >>

\* Map::get: the value stored under exactly this key, if any
get(ext, key) ==
    IF \E i \in 1..Len(ext) : ext[i][1] = key
    THEN Some(ext[CHOOSE i \in 1..Len(ext) : ext[i][1] = key][2])
    ELSE None

----------------------------------------------------------------------------
(* GraphQLErrorMessage, GraphQLErrorLocation, GraphQLErrorPathParam *)

GraphQLErrorLocation(l, c) == [line |-> l, column |-> c]

PathString(s) == [variant |-> "String", s |-> s]

PathNumber(hi, lo) == [variant |-> "Number", hi |-> hi, lo |-> lo]

GraphQLErrorMessage(m, l, x, p) ==
    [message |-> m, locations |-> l, extensions |-> x, path |-> p]

----------------------------------------------------------------------------
(* impl GraphQLError *)

\* the summary with_json supplies
DefaultMessage == "Look at json field for more details"

GraphQLError(m, j) == [message |-> m, json |-> j]

\* faulty variant: the summary message is compared as well
contains_error_message_or_summary(this, target) ==
    \/ this.message = target
    \/ /\ is_some(this.json)
       /\ LET errors == payload(this.json)
          IN  \E i \in 1..Len(errors) : errors[i].message = target

\* faulty variant: every entry must match (all in place of any)
contains_error_message_all(this, target) ==
    /\ is_some(this.json)
    /\ LET errors == payload(this.json)
       IN  \A i \in 1..Len(errors) : errors[i].message = target

contains_error_message(this, target) ==
    /\ is_some(this.json)
    /\ LET errors == payload(this.json)
       IN  \E i \in 1..Len(errors) : errors[i].message = target

contains_error_code(this, code) ==
    /\ is_some(this.json)
    /\ LET errors == payload(this.json)
       IN  \E i \in 1..Len(errors) :
              /\ is_some(errors[i].extensions)
              /\ LET ext == payload(errors[i].extensions)
                     val == get(ext, "code")
                 IN  /\ is_some(val)
                     /\ unwrap_or_default(as_str(payload(val))) = code

with_text(m) == GraphQLError(m, None)

with_message_and_json(m, j) == GraphQLError(m, Some(j))

with_json(j) == with_message_and_json(DefaultMessage, j)

message(this) == this.message

\* faulty variant: an empty list is normalised to None
json_normalised(this) == IF this.json = Some(<<>>) THEN None ELSE this.json

json(this) == this.json

\* faulty variant: the copy loses the structured errors
clone_without_json(this) == [message |-> this.message, json |-> None]

\* #[derive(Clone)]: a field-by-field copy
clone(this) == [message |-> this.message, json |-> this.json]

----------------------------------------------------------------------------
(* fn format and the two fmt impls; the Formatter is the text written so far *)

\* writeln!: the formatted text followed by a newline
writeln(f, text) == f \o text \o "\n"

Ok(f) == [result |-> "Ok", f |-> f]

Panicked(f) == [result |-> "panic", f |-> f]

RECURSIVE write_messages_reversed(_, _)
\* faulty variant: the entries are written back to front
write_messages_reversed(f, errors) ==
    IF errors = <<>> THEN f
    ELSE writeln(write_messages_reversed(f, Tail(errors)),
                 "Message: " \o Head(errors).message)

RECURSIVE write_messages(_, _)
\* the for loop of format: one writeln per entry, front to back
write_messages(f, errors) ==
    IF errors = <<>> THEN f
    ELSE write_messages(writeln(f, "Message: " \o Head(errors).message),
                        Tail(errors))

\* faulty variant: no early return when json is None, so unwrap is reached
format_unguarded(err, f) ==
    LET f1 == writeln(f, "\nGQLClient Error: " \o err.message)
    IN  IF unwrap_panics(err.json) THEN Panicked(f1)
        ELSE Ok(write_messages(f1, unwrap(err.json)))

format(err, f) ==
    LET f1 == writeln(f, "\nGQLClient Error: " \o err.message)
    IN  IF is_none(err.json) THEN Ok(f1)
        ELSE IF unwrap_panics(err.json) THEN Panicked(f1)
        ELSE Ok(write_messages(f1, unwrap(err.json)))

Display_fmt(this, f) == format(this, f)

\* faulty variant: Debug is the derived field dump, not the shared routine
Debug_fmt_derived(this, f) ==
    Ok(f \o "GraphQLError { message: " \o this.message \o " }")

Debug_fmt(this, f) == format(this, f)

----------------------------------------------------------------------------
(* impl From<reqwest::Error>: the message is the failure's Display text *)

ReqwestError(kind, url) == [kind |-> kind, url |-> url]

Error_to_string(error) ==
    (CASE error.kind = "Builder" -> "builder error"
       [] error.kind = "Request" -> "error sending request"
       [] error.kind = "Decode"  -> "error decoding response body")
    \o (IF error.url = None THEN "" ELSE " for url (" \o error.url[1] \o ")")

\* faulty variant: the conversion stores an empty list of structured errors
From_Error_with_empty_json(error) ==
    [message |-> Error_to_string(error), json |-> Some(<<>>)]

From_Error(error) == [message |-> Error_to_string(error), json |-> None]

----------------------------------------------------------------------------
(* The inputs the operations are driven with *)

Messages == {"", "a"}

Targets == {"", "a", "b", "c"}

TransportErrors ==
    { ReqwestError("Builder", None),
      ReqwestError("Request", Some("http://h/")),
      ReqwestError("Decode", Some("http://h/")) }

Entries ==
    { GraphQLErrorMessage("a", None, None, None),
      GraphQLErrorMessage("", Some(<<GraphQLErrorLocation(3, 7)>>),
                          Some(Map1("code", JString("a"))),
                          Some(<<PathString("user"), PathNumber(0, 0)>>)),
      GraphQLErrorMessage("b", None,
                          Some(Map2("other", JBool(TRUE), "code", JString(""))),
                          None),
      GraphQLErrorMessage("a", None, Some(Map1("code", PosInt(0, 42))),
                          Some(<<PathNumber(0, 1)>>)),
      GraphQLErrorMessage("b", None, Some(Map1("code", JNull)), None),
      GraphQLErrorMessage("", None, Some(Map1("Code", JString("c"))), None) }

EntryLists == UNION { [1..n -> Entries] : n \in 0..MaxEntries }

----------------------------------------------------------------------------
(* The life of one error value: built once, then read any number of times *)

NoCall == [name |-> "none"]

Init ==
    /\ pc = "start"
    /\ ctor = NoCall
    /\ self = None
    /\ op = NoCall
    /\ ret = None
    /\ first = None
    /\ repeat = FALSE
    /\ wire = <<>>
    /\ decoded = None

Built(call, value) ==
    /\ pc = "start"
    /\ pc' = "built"
    /\ ctor' = call
    /\ self' = value
    /\ UNCHANGED <<op, ret, first, repeat, wire, decoded>>

New_with_text ==
    \E m \in Messages :
        Built([name |-> "with_text", message |-> m], with_text(m))

New_with_message_and_json ==
    \E m \in Messages, j \in EntryLists :
        Built([name |-> "with_message_and_json", message |-> m, json |-> j],
              with_message_and_json(m, j))

New_with_json ==
    \E j \in EntryLists :
        Built([name |-> "with_json", json |-> j], with_json(j))

New_from ==
    \E error \in TransportErrors :
        Built([name |-> "from", error |-> error], From_Error(error))

\* every method borrows the value immutably (&self): it is left as it was
Called(call, result) ==
    /\ pc = "built"
    /\ op' = call
    /\ ret' = result
    /\ first' = IF first = None THEN Some([op |-> call, ret |-> result]) ELSE first
    /\ repeat' = (first # None /\ first[1].op = call)
    /\ UNCHANGED <<pc, ctor, self, wire, decoded>>

Call_message == Called([name |-> "message"], message(self))

Call_json == Called([name |-> "json"], json(self))

Call_clone == Called([name |-> "clone"], clone(self))

Call_Display == Called([name |-> "Display"], Display_fmt(self, ""))

Call_Debug == Called([name |-> "Debug"], Debug_fmt(self, ""))

Call_contains_error_message ==
    /\ pc = "built"
    /\ \E t \in Targets \cup {self.message} :
        Called([name |-> "contains_error_message", arg |-> t],
               contains_error_message(self, t))

Call_contains_error_code ==
    /\ pc = "built"
    /\ \E t \in Targets \cup {self.message} :
        Called([name |-> "contains_error_code", arg |-> t],
               contains_error_code(self, t))

Next ==
    \/ New_with_text
    \/ New_with_message_and_json
    \/ New_with_json
    \/ New_from
    \/ Call_message
    \/ Call_json
    \/ Call_clone
    \/ Call_Display
    \/ Call_Debug
    \/ Call_contains_error_message
    \/ Call_contains_error_code

Spec == Init /\ [][Next]_vars

----------------------------------------------------------------------------
(* #[derive(Deserialize)] #[serde(untagged)] enum GraphQLErrorPathParam:   *)
(* the variants are tried in declaration order on the buffered value and   *)
(* the first that deserializes wins.                                       *)

\* width of the Number variant's payload
U32Bits == 32

Result_Ok(v) == [result |-> "Ok", value |-> v]

Result_Err(e) == [result |-> "Err", error |-> e]

\* String accepts a JSON string and nothing else
deserialize_String(content) ==
    IF content.t = "String" THEN Result_Ok(content.s)
    ELSE Result_Err("invalid type, expected a string")

\* u32 accepts a non-negative integer below 2^32 and nothing else
deserialize_u32(content) ==
    IF content.t = "Number" /\ content.n = "PosInt"
       /\ content.hi < 2 ^ (U32Bits - 16)
    THEN Result_Ok([hi |-> content.hi, lo |-> content.lo])
    ELSE Result_Err("invalid type or value, expected u32")

\* faulty variant: the Number variant is tried first and coerces a string of digits
deserialize_GraphQLErrorPathParam_coercing(content) ==
    LET s == deserialize_String(content)
        n == deserialize_u32(content)
    IN  IF n.result = "Ok"
        THEN Result_Ok(PathNumber(n.value.hi, n.value.lo))
        ELSE IF content = JString("0") THEN Result_Ok(PathNumber(0, 0))
        ELSE IF s.result = "Ok" THEN Result_Ok(PathString(s.value))
        ELSE Result_Err("data did not match any variant of untagged enum GraphQLErrorPathParam")

deserialize_GraphQLErrorPathParam(content) ==
    LET s == deserialize_String(content)
        n == deserialize_u32(content)
    IN  IF s.result = "Ok" THEN Result_Ok(PathString(s.value))
        ELSE IF n.result = "Ok"
             THEN Result_Ok(PathNumber(n.value.hi, n.value.lo))
        ELSE Result_Err("data did not match any variant of untagged enum GraphQLErrorPathParam")

RECURSIVE deserialize_path(_)
\* Vec<GraphQLErrorPathParam>: element by element, the first error aborts
deserialize_path(elements) ==
    IF elements = <<>> THEN Result_Ok(<<>>)
    ELSE LET head == deserialize_GraphQLErrorPathParam(Head(elements))
             rest == deserialize_path(Tail(elements))
         IN  IF head.result = "Err" THEN head
             ELSE IF rest.result = "Err" THEN rest
             ELSE Result_Ok(<<head.value>> \o rest.value)

\* the JSON values a path array is drawn from: 4294967295 is the largest
\* u32, 4294967296 the first integer past it
WireSegments ==
    { JString("user"), JString("name"), JString("0"),
      PosInt(0, 0), PosInt(0, 7), PosInt(65535, 65535), PosInt(65536, 0),
      NegInt(1), Float("0.5"), JBool(TRUE), JNull }

WirePaths == UNION { [1..n -> WireSegments] : n \in 0..MaxPath }

InitDecode ==
    /\ pc = "idle"
    /\ ctor = NoCall
    /\ self = None
    /\ op = NoCall
    /\ ret = None
    /\ first = None
    /\ repeat = FALSE
    /\ wire = <<>>
    /\ decoded = None

Receive_path ==
    /\ pc = "idle"
    /\ \E w \in WirePaths : wire' = w
    /\ pc' = "wire"
    /\ UNCHANGED <<ctor, self, op, ret, first, repeat, decoded>>

Deserialize_path ==
    /\ pc = "wire"
    /\ decoded' = deserialize_path(wire)
    /\ pc' = "decoded"
    /\ UNCHANGED <<ctor, self, op, ret, first, repeat, wire>>

NextDecode ==
    \/ Receive_path
    \/ Deserialize_path

SpecDecode == InitDecode /\ [][NextDecode]_vars

----------------------------------------------------------------------------
(* What the checked statements are phrased with *)

GraphQLOrigin ==
    pc = "built" /\ ctor.name \in {"with_json", "with_message_and_json"}

TransportOrigin == pc = "built" /\ ctor.name \in {"with_text", "from"}

Rendering == op.name \in {"Display", "Debug"}

\* the text a transport-origin value was given as its message
GivenText ==
    IF ctor.name = "with_text" THEN ctor.message
    ELSE Error_to_string(ctor.error)

\* some entry of E carries extensions whose "code" key holds the JSON string c
HasStringCode(E, c) ==
    \E i \in 1..Len(E) :
        /\ E[i].extensions # None
        /\ \E k \in 1..Len(E[i].extensions[1]) :
              /\ E[i].extensions[1][k][1] = "code"
              /\ E[i].extensions[1][k][2].t = "String"
              /\ E[i].extensions[1][k][2].s = c

\* some entry of E carries a "code" key whose value is not a JSON string
HasNonStringCode(E) ==
    \E i \in 1..Len(E) :
        /\ E[i].extensions # None
        /\ \E k \in 1..Len(E[i].extensions[1]) :
              /\ E[i].extensions[1][k][1] = "code"
              /\ E[i].extensions[1][k][2].t # "String"

RECURSIVE MessageLines(_, _)
\* the lines "Message: <message>" of the first n entries of E, in order
MessageLines(E, n) ==
    IF n = 0 THEN ""
    ELSE MessageLines(E, n - 1) \o "Message: " \o E[n].message \o "\n"

----------------------------------------------------------------------------
\* C1: for a value built by with_json or with_message_and_json from E and
\* any target c, the empty string included, contains_error_code(c) is true
\* exactly when some entry of E has an extensions map whose "code" key holds
\* a JSON string equal to c; a non-string "code" value matches no c.
C1_CodeMatchesOnlyStringCode ==
    (GraphQLOrigin /\ op.name = "contains_error_code")
        => (ret <=> HasStringCode(ctor.json, op.arg))

\* What the code does instead: a "code" value that is not a JSON string is
\* read as the empty string, so it matches the empty target.
C1_NonStringCodeMatchesEmptyTarget ==
    (GraphQLOrigin /\ op.name = "contains_error_code")
        => (ret <=> \/ HasStringCode(ctor.json, op.arg)
                    \/ (op.arg = "" /\ HasNonStringCode(ctor.json)))

\* C2: for a value built by with_json or with_message_and_json from E and
\* any target m, contains_error_message(m) is true exactly when m equals the
\* message of some entry of E; the summary message is never compared.
C2_MessageMatchesSomeEntry ==
    (GraphQLOrigin /\ op.name = "contains_error_message")
        => (ret <=> \E i \in 1..Len(ctor.json) : ctor.json[i].message = op.arg)

\* the summary is asked for, no entry carries it, and the answer is false
C2_Witness ==
    /\ GraphQLOrigin
    /\ op.name = "contains_error_message"
    /\ Len(ctor.json) = 2
    /\ op.arg = self.message
    /\ ret = FALSE

\* C3: a value built by with_text or from a transport failure has no json,
\* has the given text (the failure's rendered description) as its message,
\* and answers false to both predicates for every target, its own message
\* and the empty string included.
C3_TransportHasNoJsonAndMatchesNothing ==
    TransportOrigin =>
        /\ op.name = "json" => ret = None
        /\ op.name = "message" => ret = GivenText
        /\ op.name \in {"contains_error_message", "contains_error_code"}
              => ret = FALSE

\* a converted transport failure is asked for its own message
C3_Witness ==
    /\ pc = "built"
    /\ ctor.name = "from"
    /\ op.name = "contains_error_message"
    /\ op.arg = GivenText
    /\ op.arg # ""
    /\ ret = FALSE

\* C4: with_json(E) and with_message_and_json(m, E) both return Some(E)
\* from json(), entries in order and number, also for the empty E; they
\* differ only in message(), which for with_json is the default summary.
C4_JsonIsSomeOfTheEntries ==
    GraphQLOrigin =>
        /\ op.name = "json" =>
              /\ ret = Some(ctor.json)
              /\ ret # None
              /\ \A m \in Messages :
                    /\ ret = json(with_message_and_json(m, ctor.json))
                    /\ ret = json(with_json(ctor.json))
        /\ (ctor.name = "with_json" /\ op.name = "message")
              => ret = DefaultMessage
        /\ (ctor.name = "with_message_and_json" /\ op.name = "message")
              => ret = ctor.message
        /\ ctor.name = "with_json" =>
              \A m \in Messages :
                  with_message_and_json(m, ctor.json)
                      = [self EXCEPT !.message = m]

\* json() of a value built by with_json from the empty list
C4_Witness ==
    /\ pc = "built"
    /\ ctor.name = "with_json"
    /\ ctor.json = <<>>
    /\ op.name = "json"
    /\ ret = Some(<<>>)

\* C5: a value with structured errors e1..en renders as an empty line, the
\* line "GQLClient Error: " + summary, then the n lines "Message: " +
\* ei.message in the entries' order, and nothing from the other fields.
C5_RendersOneLinePerEntryInOrder ==
    (GraphQLOrigin /\ Rendering)
        => ret = Ok("\n" \o "GQLClient Error: " \o self.message \o "\n"
                    \o MessageLines(ctor.json, Len(ctor.json)))

\* two entries with different messages, the first with locations,
\* extensions and a path, have been rendered
C5_Witness ==
    /\ GraphQLOrigin
    /\ op.name = "Display"
    /\ Len(ctor.json) = 2
    /\ ctor.json[1].message # ctor.json[2].message
    /\ ctor.json[1].locations # None
    /\ ctor.json[1].path # None
    /\ ctor.json[1].extensions # None

\* C6: a value without structured errors and with message m renders as an
\* empty line and the single line "GQLClient Error: " + m with its newline;
\* no "Message: " line is emitted.
C6_TransportRendersSummaryOnly ==
    (TransportOrigin /\ Rendering)
        => ret = Ok("\n" \o "GQLClient Error: " \o GivenText \o "\n")

\* a value built by with_text has been rendered
C6_Witness ==
    /\ pc = "built"
    /\ ctor.name = "with_text"
    /\ ctor.message = "a"
    /\ op.name = "Display"

\* C7: for every value the Display and the Debug renderings are the same
\* text.
C7_DisplayEqualsDebug ==
    pc = "built" =>
        /\ op.name = "Display" => ret = Debug_fmt(self, "")
        /\ op.name = "Debug" => ret = Display_fmt(self, "")
        /\ Display_fmt(self, "x") = Debug_fmt(self, "x")

\* the Debug rendering of a value with two entries has been produced
C7_Witness ==
    /\ GraphQLOrigin
    /\ op.name = "Debug"
    /\ Len(ctor.json) = 2
    /\ ret.result = "Ok"

\* C8: after any sequence of operations the value's message and json are
\* what its constructor stored, no operation has failed, a clone equals the
\* value, and an operation repeated with the same argument gives the result
\* it gave before.
C8_ValueIsImmutable ==
    pc = "built" =>
        /\ self = (CASE ctor.name = "with_text" -> with_text(ctor.message)
                     [] ctor.name = "with_message_and_json"
                          -> with_message_and_json(ctor.message, ctor.json)
                     [] ctor.name = "with_json" -> with_json(ctor.json)
                     [] ctor.name = "from" -> From_Error(ctor.error))
        /\ self.message = (IF GraphQLOrigin
                           THEN (IF ctor.name = "with_json" THEN DefaultMessage
                                 ELSE ctor.message)
                           ELSE GivenText)
        /\ self.json = (IF GraphQLOrigin THEN Some(ctor.json) ELSE None)
        /\ Rendering => ret.result = "Ok"
        /\ op.name = "clone" => ret = self
        /\ repeat => (first[1].op = op /\ first[1].ret = ret)

\* a predicate was called again with the argument of the first call
C8_Witness ==
    /\ pc = "built"
    /\ repeat
    /\ op.name = "contains_error_code"
    /\ op.arg = "a"
    /\ ret = TRUE

----------------------------------------------------------------------------
(* The path decoding, under SpecDecode *)

\* a JSON string, or a JSON unsigned integer that a ListIndex can hold
IsFieldName(v) == v.t = "String"

IsListIndex(v) ==
    v.t = "Number" /\ v.n = "PosInt" /\ v.hi < 2 ^ 16 /\ v.lo < 2 ^ 16

----------------------------------------------------------------------------
\* C10: json() apart, with_message_and_json(m, []) and with_text(m) are
\* indistinguishable: same rendered text, same (false) answer of both
\* predicates for every target; json() is Some(empty list) for the former
\* and None for the latter.
C10_EmptyListBehavesAsAbsent ==
    (pc = "built" /\ ctor.name = "with_message_and_json" /\ ctor.json = <<>>)
        => LET other == with_text(ctor.message)
           IN  /\ op.name = "Display" => ret = Display_fmt(other, "")
               /\ op.name = "Debug" => ret = Debug_fmt(other, "")
               /\ op.name = "message" => ret = message(other)
               /\ op.name = "contains_error_message"
                     => (ret = FALSE
                         /\ ret = contains_error_message(other, op.arg))
               /\ op.name = "contains_error_code"
                     => (ret = FALSE
                         /\ ret = contains_error_code(other, op.arg))
               /\ op.name = "json"
                     => (ret = Some(<<>>) /\ json(other) = None /\ ret # None)

\* a value built from the empty list has been rendered
C10_Witness ==
    /\ pc = "built"
    /\ ctor.name = "with_message_and_json"
    /\ ctor.json = <<>>
    /\ ctor.message = "a"
    /\ op.name = "Display"
    /\ ret = Ok("\nGQLClient Error: a\n")

====
